---- MODULE Spec2Model ----
(***************************************************************************)
(* Model of latqcdtools/base/speedify.py: the import-time backend probe,   *)
(* the COMPILE toggles, the compile() adapter and the dispatcher           *)
(* (ComputationClass, parallel_function_eval, parallel_reduce).            *)
(*                                                                         *)
(* Values are small integers.  Arguments carry their runtime container     *)
(* type, so that handle_jax_array is a real conversion.  A function        *)
(* application yields an outcome record: a value or a raised exception.    *)
(***************************************************************************)
EXTENDS Integers, Sequences, FiniteSets, TLC

\* ------------------------------------------------------------------ bounds
MaxLen == 2
MaxVal == 1
MaxNproc == 3
MaxCpu == 4

\* ------------------------------------------------------- values and inputs
Vals == 0..MaxVal

RECURSIVE SeqsUpTo(_, _)
SeqsUpTo(S, n) ==
    IF n = 0 THEN {<<>>}
    ELSE LET shorter == SeqsUpTo(S, n - 1)
         IN  shorter \cup {Append(s, x) : s \in {t \in shorter : Len(t) = n - 1}, x \in S}

InputArrays == SeqsUpTo(Vals, MaxLen)

\* an argument value: its runtime type and its numeric content
Scalar(n) == [ty |-> "scalar", v |-> <<n>>]
PyList(s) == [ty |-> "list", v |-> s]
ArgTuples == {<<>>, <<Scalar(1)>>, <<PyList(<<1, 2>>)>>}

\* the machines the module is imported on: a single cpu, where max(1, n - 2)
\* clamps, and the largest one
CpuCounts == {1, MaxCpu}

NprocArgs == 0..MaxNproc
Recognized == {"jax", "concurrent.futures", "pathos.pools"}
ParallelizerArgs == Recognized \cup {"mpi4py"}
BadTypes == {"none", "nproc", "input_array", "parallelizer"}
Ops == {"eval", "reduce"}

\* --------------------------------------------------- the mapped functions
\* sq(x) = x*x; addargs(x, *a) = x + sum of the contents of a;
\* assertPos(x, *a): "if x <= 0: raise ...; return x" (branches on its input);
\* setitem(x, a): "a[0] = x; return sum(a)" (item assignment on its argument)
Functions == {"sq", "addargs", "assertPos", "setitem"}

Ok(v) == [exc |-> FALSE, val |-> v]
Raise == [exc |-> TRUE, val |-> 0]

RECURSIVE SumSeq(_)
SumSeq(s) == IF s = <<>> THEN 0 ELSE Head(s) + SumSeq(Tail(s))

RECURSIVE SumArgs(_)
SumArgs(a) == IF a = <<>> THEN 0 ELSE SumSeq(Head(a).v) + SumArgs(Tail(a))

\* function(single_input, *args) as the interpreter evaluates it
Apply(f, x, a) ==
    CASE f = "sq" -> IF a = <<>> THEN Ok(x * x) ELSE Raise
      [] f = "addargs" -> Ok(x + SumArgs(a))
      [] f = "assertPos" -> IF x <= 0 THEN Raise ELSE Ok(x)
      [] f = "setitem" ->
            IF Len(a) = 1 /\ a[1].ty = "list"
            THEN Ok(x + SumSeq(Tail(a[1].v)))
            ELSE Raise

\* whether the function can be traced by jax (vmap / jit): branching on a
\* traced value and item assignment cannot
Traceable(f) == f \in {"sq", "addargs"}

\* ------------------------------------------------------------------- state
VARIABLES
    jaxInstalled,        \* environment: "import jax" succeeds
    pathosInstalled,     \* environment: "import pathos.pools" succeeds
    cpuCount,            \* environment: os.cpu_count()
    loadpc,              \* position of the module body: "import_jax", "import_pathos", "ready"
    DEFAULTPARALLELIZER,
    COMPILE,
    MAXTHREADS,
    DEFAULTTHREADS,
    pc,                  \* position of the dispatch call in progress
    op,                  \* "eval" (parallel_function_eval) or "reduce" (parallel_reduce)
    function,            \* self._function
    input_array,         \* self._input_array
    args,                \* self._args
    nproc,               \* self._nproc
    parallelizer,        \* self._parallelizer
    results,             \* the local "results" of parallelization_wrapper
    futures,             \* per submitted task: pending, done (with outcome) or broken
    pool,                \* "none", "open", "closed": the pool created by this call
    poolSize,            \* the worker count the pool was created with
    calls,               \* indices of the input elements in the order the function was applied
    vmapped,             \* jax.vmap was applied by this call
    warnings,            \* number of logger.warn lines of this call
    outcome,             \* "none", "returned", "raised"
    excKind,             \* what was raised
    errorMsg,            \* the identifier named by logger.TBError
    total,               \* the value parallel_reduce returns
    badArg,              \* the argument of this dispatch that checkType rejected, or "none"
    omitted,             \* the arguments this dispatch left to their defaults
    defNproc,            \* the default of nproc bound by the def statements (lines 159, 178)
    defParallelizer,     \* the default of parallelizer bound by the def statements
    compiled,            \* the object compile(func) returned last
    compiledWhen,        \* the value COMPILE had when that compile ran
    invoked,             \* record of the last call of that object
    recompiled,          \* what compile returned when applied to that object
    reinvoked            \* record of the call of the recompiled object with the same arguments

cfgVars == <<jaxInstalled, pathosInstalled, cpuCount, loadpc, DEFAULTPARALLELIZER,
             COMPILE, MAXTHREADS, DEFAULTTHREADS, defNproc, defParallelizer>>
callVars == <<pc, op, function, input_array, args, nproc, parallelizer, results,
              futures, pool, poolSize, calls, vmapped, warnings, outcome, excKind,
              errorMsg, total, badArg, omitted>>
compVars == <<compiled, compiledWhen, invoked, recompiled, reinvoked>>
vars == <<cfgVars, callVars, compVars>>

Max(a, b) == IF a >= b THEN a ELSE b

NoCompiled == [kind |-> "none", func |-> "none"]
NoInvoked == [path |-> "none", x |-> 0, a |-> <<>>, out |-> Raise, warned |-> 0]
NoRecompiled == [kind |-> "none", inner |-> NoCompiled, flag |-> FALSE]

\* the state of a dispatch before ComputationClass.__init__ has stored anything
IdleCall ==
    /\ pc = "idle" /\ op = "none" /\ function = "none" /\ input_array = <<>>
    /\ args = <<>> /\ nproc = 0 /\ parallelizer = "none" /\ results = <<>>
    /\ futures = <<>> /\ pool = "none" /\ poolSize = 0 /\ calls = <<>>
    /\ vmapped = FALSE /\ warnings = 0 /\ outcome = "none" /\ excKind = "none"
    /\ errorMsg = "none" /\ total = 0 /\ badArg = "none" /\ omitted = {}

\* The module body up to and including line 18, with the flags of lines 29-31
\* (which read nothing the imports write).
Init ==
    /\ jaxInstalled \in BOOLEAN
    /\ pathosInstalled \in BOOLEAN
    /\ cpuCount \in CpuCounts
    /\ loadpc = "import_jax"
    /\ DEFAULTPARALLELIZER = "jax"
    /\ COMPILE = FALSE
    /\ MAXTHREADS = cpuCount
    /\ DEFAULTTHREADS = Max(1, cpuCount - 2)
    /\ defNproc = 0
    /\ defParallelizer = "none"
    /\ IdleCall
    /\ compiled = NoCompiled
    /\ compiledWhen = FALSE
    /\ invoked = NoInvoked
    /\ recompiled = NoRecompiled
    /\ reinvoked = NoInvoked

\* ------------------------------------------------------ capability probe
\* lines 19-22
ImportJax ==
    /\ loadpc = "import_jax"
    /\ DEFAULTPARALLELIZER' = IF jaxInstalled THEN DEFAULTPARALLELIZER ELSE "pathos.pools"
    /\ loadpc' = "import_pathos"
    /\ UNCHANGED <<jaxInstalled, pathosInstalled, cpuCount, COMPILE, MAXTHREADS,
                   DEFAULTTHREADS, callVars, compVars>>
    /\ UNCHANGED <<defNproc, defParallelizer>>

\* lines 23-26; the rest of the module body then binds the defaults of
\* parallel_function_eval and parallel_reduce (lines 159, 178)
ImportPathos ==
    /\ loadpc = "import_pathos"
    /\ DEFAULTPARALLELIZER' = IF pathosInstalled THEN DEFAULTPARALLELIZER ELSE "concurrent.futures"
    /\ loadpc' = "ready"
    /\ defNproc' = DEFAULTTHREADS
    /\ defParallelizer' = DEFAULTPARALLELIZER'
    /\ UNCHANGED <<jaxInstalled, pathosInstalled, cpuCount, COMPILE, MAXTHREADS,
                   DEFAULTTHREADS, callVars, compVars>>

\* ------------------------------------------------------------- toggles
\* lines 33-36
compileON ==
    /\ loadpc = "ready"
    /\ pc = "idle"
    /\ COMPILE' = TRUE
    /\ UNCHANGED <<jaxInstalled, pathosInstalled, cpuCount, loadpc, DEFAULTPARALLELIZER,
                   MAXTHREADS, DEFAULTTHREADS, defNproc, defParallelizer,
                   callVars, compVars>>

\* compileOFF flipping the flag instead of clearing it
compileOFFFlips ==
    /\ loadpc = "ready"
    /\ pc = "idle"
    /\ COMPILE' = ~COMPILE
    /\ UNCHANGED <<jaxInstalled, pathosInstalled, cpuCount, loadpc, DEFAULTPARALLELIZER,
                   MAXTHREADS, DEFAULTTHREADS, defNproc, defParallelizer,
                   callVars, compVars>>

\* lines 38-41
compileOFF ==
    /\ loadpc = "ready"
    /\ pc = "idle"
    /\ COMPILE' = FALSE
    /\ UNCHANGED <<jaxInstalled, pathosInstalled, cpuCount, loadpc, DEFAULTPARALLELIZER,
                   MAXTHREADS, DEFAULTTHREADS, defNproc, defParallelizer,
                   callVars, compVars>>

\* -------------------------------------------------- argument conversion
handle_jax_array(x) ==
    IF DEFAULTPARALLELIZER = "jax" /\ x.ty \in {"ndarray", "list", "tuple"}
    THEN [ty |-> "jax", v |-> x.v]
    ELSE x

handle_jax_args(a) == [i \in 1..Len(a) |-> handle_jax_array(a[i])]

\* ------------------------------------------------------------ dispatcher
Pending == [st |-> "pending", out |-> Raise]
N == Len(input_array)

\* the call raises exception k and ends
Raises(k) ==
    /\ outcome' = "raised"
    /\ excKind' = k
    /\ pc' = "done"

\* checkType(expected, name=value) raises when the runtime type of the value is
\* not the expected one
checkType(matches) == ~matches

\* the checks of __init__ without the one of the parallelizer
InitChecksSkipParallelizer(bad) ==
    \/ checkType(bad # "nproc")
    \/ checkType(bad # "input_array")

\* lines 105-107: some check raises
InitChecks(bad) ==
    \/ checkType(bad # "nproc")
    \/ checkType(bad # "input_array")
    \/ checkType(bad # "parallelizer")

\* parallel_function_eval / parallel_reduce entered; ComputationClass.__init__
\* up to the call of parallelization_wrapper.  bad names the argument whose
\* runtime type checkType rejects.
Call(o, f, inp, a, n, p, bad) ==
    /\ loadpc = "ready"
    /\ pc = "idle"
    /\ op' = o
    /\ badArg' = bad
    /\ IF InitChecks(bad)
       THEN /\ Raises("checkType")
            /\ UNCHANGED <<function, input_array, args, nproc, parallelizer, warnings>>
       ELSE /\ function' = f
            /\ input_array' = inp
            /\ args' = a
            /\ nproc' = n
            /\ parallelizer' = p
            /\ warnings' = IF n > MAXTHREADS THEN warnings + 1 ELSE warnings
            /\ pc' = "wrapper"
            /\ UNCHANGED <<outcome, excKind>>
    /\ UNCHANGED <<results, futures, pool, poolSize, calls, vmapped, errorMsg, total,
                   cfgVars, compVars>>

\* a wrong comparison on line 125
SequentialPathBelowOne == nproc < 1

\* line 125 taking every worker count up to 1 for the loop
SequentialPathUpToOne == nproc <= 1

\* line 125
SequentialPath == nproc = 1

\* lines 125-126
SeqEnter ==
    /\ pc = "wrapper"
    /\ SequentialPath
    /\ results' = <<>>
    /\ pc' = "seq"
    /\ UNCHANGED <<op, function, input_array, args, nproc, parallelizer, futures, pool,
                   poolSize, calls, vmapped, warnings, outcome, excKind, errorMsg, total,
                   cfgVars, compVars, badArg, omitted>>

\* the wrapper swallowing the function's exception
pass_argument_wrapperSwallows(single_input) ==
    LET r == Apply(function, single_input, args)
    IN  IF r.exc THEN Ok(0) ELSE r

\* pass_argument_wrapper
pass_argument_wrapper(single_input) == Apply(function, single_input, args)

\* lines 127-128: one iteration of the for loop
SeqStep ==
    /\ pc = "seq"
    /\ Len(results) < N
    /\ LET i == Len(results) + 1
           out == pass_argument_wrapper(input_array[i])
       IN  /\ calls' = Append(calls, i)
           /\ IF out.exc
              THEN /\ Raises("function")
                   /\ UNCHANGED results
              ELSE /\ results' = Append(results, out.val)
                   /\ UNCHANGED <<pc, outcome, excKind>>
    /\ UNCHANGED <<op, function, input_array, args, nproc, parallelizer, futures, pool,
                   poolSize, vmapped, warnings, errorMsg, total, cfgVars, compVars, badArg, omitted>>

\* the for loop is exhausted; line 150
SeqExit ==
    /\ pc = "seq"
    /\ Len(results) = N
    /\ pc' = "ret"
    /\ UNCHANGED <<op, function, input_array, args, nproc, parallelizer, results, futures,
                   pool, poolSize, calls, vmapped, warnings, outcome, excKind, errorMsg,
                   total, cfgVars, compVars, badArg, omitted>>

\* lines 130-137 and 149: the vmap branch.  jax.numpy.asarray, np.array and list
\* keep the numeric content of the small integers modelled here; vmap applies
\* the function once to the whole batch, recorded as one call per element.
JaxTier ==
    /\ pc = "wrapper"
    /\ ~SequentialPath
    /\ parallelizer = "jax"
    /\ IF ~jaxInstalled
       THEN /\ Raises("NameError")
            /\ UNCHANGED <<results, calls, vmapped>>
       ELSE LET jax_args == handle_jax_args(args)
                outs == [i \in 1..N |-> Apply(function, input_array[i], jax_args)]
            IN  /\ vmapped' = TRUE
                /\ IF ~Traceable(function) \/ (\E i \in 1..N : outs[i].exc)
                   THEN /\ Raises("trace")
                        /\ UNCHANGED <<results, calls>>
                   ELSE /\ results' = [i \in 1..N |-> outs[i].val]
                        /\ calls' = [i \in 1..N |-> i]
                        /\ pc' = "ret"
                        /\ UNCHANGED <<outcome, excKind>>
    /\ UNCHANGED <<op, function, input_array, args, nproc, parallelizer, futures, pool,
                   poolSize, warnings, errorMsg, total, cfgVars, compVars, badArg, omitted>>

\* the pool sized to the clamped worker count instead of the requested one
PoolWorkersClamped == IF nproc > MAXTHREADS THEN MAXTHREADS ELSE nproc

\* the worker count a pool is created with (max_workers=, processes=)
PoolWorkers == nproc

\* a pool constructor: both libraries refuse a worker count below 1
OpenPool(next) ==
    IF PoolWorkers < 1
    THEN /\ Raises("ValueError")
         /\ UNCHANGED <<pool, poolSize, futures>>
    ELSE /\ pool' = "open"
         /\ poolSize' = PoolWorkers
         /\ futures' = [i \in 1..N |-> Pending]
         /\ pc' = next
         /\ UNCHANGED <<outcome, excKind>>

\* lines 138-140: the executor is created and map submits one task per element
CfCreate ==
    /\ pc = "wrapper"
    /\ ~SequentialPath
    /\ parallelizer = "concurrent.futures"
    /\ OpenPool("cf_map")
    /\ UNCHANGED <<op, function, input_array, args, nproc, parallelizer, results, calls,
                   vmapped, warnings, errorMsg, total, cfgVars, compVars, badArg, omitted>>

\* lines 141-143: the pathos pool is created and map submits the tasks
PaCreate ==
    /\ pc = "wrapper"
    /\ ~SequentialPath
    /\ parallelizer = "pathos.pools"
    /\ IF ~pathosInstalled
       THEN /\ Raises("NameError")
            /\ UNCHANGED <<pool, poolSize, futures>>
       ELSE OpenPool("pa_map")
    /\ UNCHANGED <<op, function, input_array, args, nproc, parallelizer, results, calls,
                   vmapped, warnings, errorMsg, total, cfgVars, compVars, badArg, omitted>>

\* a pool that may run a task again after it has completed
TaskRunRepeats(i) ==
    /\ pc \in {"cf_map", "pa_map"}
    /\ i \in 1..N
    /\ futures[i].st = "pending" \/ (futures[i].st = "done" /\ Len(calls) < N)
    /\ futures' = [futures EXCEPT ![i] = [st |-> "done", out |-> pass_argument_wrapper(input_array[i])]]
    /\ calls' = Append(calls, i)
    /\ UNCHANGED <<pc, op, function, input_array, args, nproc, parallelizer, results, pool,
                   poolSize, vmapped, warnings, outcome, excKind, errorMsg, total,
                   cfgVars, compVars, badArg, omitted>>

\* a worker runs task i; the workers take the tasks in any order
TaskRun(i) ==
    /\ pc \in {"cf_map", "pa_map"}
    /\ i \in 1..N
    /\ futures[i].st = "pending"
    /\ futures' = [futures EXCEPT ![i] = [st |-> "done", out |-> pass_argument_wrapper(input_array[i])]]
    /\ calls' = Append(calls, i)
    /\ UNCHANGED <<pc, op, function, input_array, args, nproc, parallelizer, results, pool,
                   poolSize, vmapped, warnings, outcome, excKind, errorMsg, total,
                   cfgVars, compVars, badArg, omitted>>

\* the pool itself fails (a worker process dies): every task not yet run is
\* completed with the pool's exception
PoolBreak ==
    /\ pc \in {"cf_map", "pa_map"}
    /\ \E i \in 1..N : futures[i].st = "pending"
    /\ futures' = [i \in 1..N |-> IF futures[i].st = "pending"
                                  THEN [st |-> "broken", out |-> Raise]
                                  ELSE futures[i]]
    /\ UNCHANGED <<pc, op, function, input_array, args, nproc, parallelizer, results, pool,
                   poolSize, calls, vmapped, warnings, outcome, excKind, errorMsg, total,
                   cfgVars, compVars, badArg, omitted>>

AllComplete == \A i \in 1..N : futures[i].st # "pending"
SomeFailed == \E i \in 1..N : futures[i].out.exc
FirstFailed == CHOOSE i \in 1..N : futures[i].out.exc /\ \A j \in 1..(i - 1) : ~futures[j].out.exc
FailureKind == IF futures[FirstFailed].st = "broken" THEN "pool" ELSE "function"

\* the values in the order the tasks completed
CollectCompletionOrder == [k \in 1..N |-> futures[calls[k]].out.val]

\* what map hands back: the tasks' values by input position
Collect == [i \in 1..N |-> futures[i].out.val]

\* line 139: leaving the with block shuts the executor down, waiting for the tasks
CfExit ==
    /\ pc = "cf_map"
    /\ AllComplete
    /\ pool' = "closed"
    /\ pc' = "cf_list"
    /\ UNCHANGED <<op, function, input_array, args, nproc, parallelizer, results, futures,
                   poolSize, calls, vmapped, warnings, outcome, excKind, errorMsg, total,
                   cfgVars, compVars, badArg, omitted>>

\* line 149: list(results) drains the map iterator, which raises a task's exception
CfList ==
    /\ pc = "cf_list"
    /\ IF SomeFailed
       THEN /\ Raises(FailureKind)
            /\ UNCHANGED results
       ELSE /\ results' = Collect
            /\ pc' = "ret"
            /\ UNCHANGED <<outcome, excKind>>
    /\ UNCHANGED <<op, function, input_array, args, nproc, parallelizer, futures, pool,
                   poolSize, calls, vmapped, warnings, errorMsg, total, cfgVars, compVars, badArg, omitted>>

\* line 143: pool.map blocks until every task is complete, then returns or raises
PaMap ==
    /\ pc = "pa_map"
    /\ AllComplete
    /\ IF SomeFailed
       THEN /\ Raises(FailureKind)
            /\ UNCHANGED results
       ELSE /\ results' = Collect
            /\ pc' = "pa_close"
            /\ UNCHANGED <<outcome, excKind>>
    /\ UNCHANGED <<op, function, input_array, args, nproc, parallelizer, futures, pool,
                   poolSize, calls, vmapped, warnings, errorMsg, total, cfgVars, compVars, badArg, omitted>>

\* lines 144-146 and 149
PaClose ==
    /\ pc = "pa_close"
    /\ pool' = "closed"
    /\ pc' = "ret"
    /\ UNCHANGED <<op, function, input_array, args, nproc, parallelizer, results, futures,
                   poolSize, calls, vmapped, warnings, outcome, excKind, errorMsg, total,
                   cfgVars, compVars, badArg, omitted>>

\* the unknown-backend branch also resetting the process-wide default
UnknownParallelizerResetsDefault ==
    /\ pc = "wrapper"
    /\ ~SequentialPath
    /\ parallelizer \notin Recognized
    /\ Raises("TBError")
    /\ errorMsg' = parallelizer
    /\ DEFAULTPARALLELIZER' = "concurrent.futures"
    /\ UNCHANGED <<op, function, input_array, args, nproc, parallelizer, results, futures,
                   pool, poolSize, calls, vmapped, warnings, total, badArg, omitted,
                   jaxInstalled, pathosInstalled, cpuCount, loadpc, COMPILE, MAXTHREADS,
                   DEFAULTTHREADS, defNproc, defParallelizer, compVars>>

\* lines 147-148
UnknownParallelizer ==
    /\ pc = "wrapper"
    /\ ~SequentialPath
    /\ parallelizer \notin Recognized
    /\ Raises("TBError")
    /\ errorMsg' = parallelizer
    /\ UNCHANGED <<op, function, input_array, args, nproc, parallelizer, results, futures,
                   pool, poolSize, calls, vmapped, warnings, total, cfgVars, compVars, badArg, omitted>>

\* the sum missing the first element
ReduceSkipFirst(container) == IF container = <<>> THEN 0 ELSE SumSeq(Tail(container))

\* line 191: np.sum(container)
Reduce(container) == SumSeq(container)

\* lines 173-175: parallel_function_eval returns getResult(); lines 190-191:
\* parallel_reduce sums it
Return ==
    /\ pc = "ret"
    /\ outcome' = "returned"
    /\ total' = IF op = "reduce" THEN Reduce(results) ELSE total
    /\ pc' = "done"
    /\ UNCHANGED <<op, function, input_array, args, nproc, parallelizer, results, futures,
                   pool, poolSize, calls, vmapped, warnings, excKind, errorMsg,
                   cfgVars, compVars, badArg, omitted>>

\* the caller has the result or the exception; the next dispatch starts afresh
Finish ==
    /\ pc = "done"
    /\ pc' = "idle" /\ op' = "none" /\ function' = "none" /\ input_array' = <<>>
    /\ args' = <<>> /\ nproc' = 0 /\ parallelizer' = "none" /\ results' = <<>>
    /\ futures' = <<>> /\ pool' = "none" /\ poolSize' = 0 /\ calls' = <<>>
    /\ vmapped' = FALSE /\ warnings' = 0 /\ outcome' = "none" /\ excKind' = "none"
    /\ errorMsg' = "none" /\ total' = 0 /\ badArg' = "none" /\ omitted' = {}
    /\ UNCHANGED <<cfgVars, compVars>>

\* a caller dispatches: any function, input, extra arguments, worker count and
\* backend, the last two given or left to the defaults the def statements bound
Dispatch ==
    /\ pc = "idle"
    /\ \E o \in Ops, f \in Functions, inp \in InputArrays, a \in ArgTuples,
          n \in NprocArgs, p \in ParallelizerArgs, bad \in BadTypes,
          noNproc \in BOOLEAN, noParallelizer \in BOOLEAN :
            /\ noNproc => n = 0 /\ bad # "nproc"
            /\ noParallelizer => p = "jax" /\ bad # "parallelizer"
            /\ Call(o, f, inp, a, IF noNproc THEN defNproc ELSE n,
                    IF noParallelizer THEN defParallelizer ELSE p, bad)
            /\ omitted' = IF InitChecks(bad) THEN {}
                          ELSE (IF noNproc THEN {"nproc"} ELSE {})
                               \cup (IF noParallelizer THEN {"parallelizer"} ELSE {})

\* ------------------------------------------------------ compiler adapter
\* what numba's nopython mode cannot type
Njittable(f) == f # "setitem"

\* compile without the test of COMPILE on line 86
DecideAlwaysNjit(f) ==
    IF COMPILE /\ DEFAULTPARALLELIZER = "jax"
    THEN [kind |-> "wrapped_func", func |-> f]
    ELSE [kind |-> "njit", func |-> f]

\* compile returning the fallback wrapper whenever COMPILE is set
DecideWrapsWhenCompiling(f) ==
    IF COMPILE
    THEN [kind |-> "wrapped_func", func |-> f]
    ELSE [kind |-> "func", func |-> f]

\* lines 58-90: compile(func) returns func, wrapped_func (closing over func) or njit(func)
Decide(f) ==
    IF COMPILE /\ DEFAULTPARALLELIZER = "jax"
    THEN [kind |-> "wrapped_func", func |-> f]
    ELSE IF COMPILE
         THEN [kind |-> "njit", func |-> f]
         ELSE [kind |-> "func", func |-> f]

Compile(f) ==
    /\ loadpc = "ready"
    /\ pc = "idle"
    /\ compiled' = Decide(f)
    /\ compiledWhen' = COMPILE
    /\ invoked' = NoInvoked
    /\ recompiled' = NoRecompiled
    /\ reinvoked' = NoInvoked
    /\ UNCHANGED <<cfgVars, callVars>>

\* lines 67-72: jax_func(*args) converts the arguments and traces func
jax_func(f, x, a) ==
    IF Traceable(f) THEN Apply(f, x, handle_jax_args(a)) ELSE Raise

\* the except branch calling func with the converted arguments
FallbackConverted(f, x, a) == Apply(f, x, handle_jax_args(a))

\* line 79: the except branch calls func(*args, **kwargs)
Fallback(f, x, a) == Apply(f, x, a)

\* lines 74-79
wrapped_func(f, x, a) ==
    LET r == jax_func(f, x, a)
    IN  IF r.exc
        THEN [path |-> "fallback", x |-> x, a |-> a, out |-> Fallback(f, x, a), warned |-> 1]
        ELSE [path |-> "jax", x |-> x, a |-> a, out |-> r, warned |-> 0]

\* the branch a compiled object takes when called, read at call time
KindAtCall(c) == Decide(c.func).kind

\* lines 81, 88, 90: the object returned is fixed by the return statement that ran
Kind(c) == c.kind

\* the object c that compile returned is called with (x, *a)
CallCompiled(c, x, a) ==
    CASE Kind(c) = "wrapped_func" -> wrapped_func(c.func, x, a)
      [] Kind(c) = "njit" ->
           [path |-> "njit", x |-> x, a |-> a, warned |-> 0,
            out |-> IF Njittable(c.func) THEN Apply(c.func, x, a) ELSE Raise]
      [] Kind(c) = "func" ->
           [path |-> "func", x |-> x, a |-> a, warned |-> 0,
            out |-> Apply(c.func, x, a)]

\* lines 58-90 applied to an object c that compile returned: the same tests,
\* with no test of what c is; numba's jit decorator refuses a function that
\* is already jitted with a TypeError
DecideAgain(c) ==
    LET k == Decide(c.func).kind
    IN  IF k = "func" THEN [kind |-> "same", inner |-> c, flag |-> COMPILE]
        ELSE IF k = "njit" /\ c.kind = "njit"
             THEN [kind |-> "TypeError", inner |-> c, flag |-> COMPILE]
             ELSE [kind |-> k, inner |-> c, flag |-> COMPILE]

\* line 71 with func = c: c is called under jax's trace with converted arguments
TracedCall(c, x, a) ==
    CASE c.kind = "func" ->
           [out |-> IF Traceable(c.func) THEN Apply(c.func, x, a) ELSE Raise, warned |-> 0]
      [] c.kind = "wrapped_func" ->
           LET r == jax_func(c.func, x, a)
           IN  IF r.exc
               THEN [out |-> IF Traceable(c.func) THEN Fallback(c.func, x, a) ELSE Raise,
                     warned |-> 1]
               ELSE [out |-> r, warned |-> 0]
      [] c.kind = "njit" -> [out |-> Raise, warned |-> 0]

\* lines 74-79 with func = c
WrappedOver(c, x, a) ==
    LET r == TracedCall(c, x, handle_jax_args(a))
        d == CallCompiled(c, x, a)
    IN  IF r.out.exc
        THEN [path |-> "fallback", x |-> x, a |-> a, out |-> d.out,
              warned |-> r.warned + 1 + d.warned]
        ELSE [path |-> "jax", x |-> x, a |-> a, out |-> r.out, warned |-> r.warned]

\* the object compile(compile(func)) returned is called with (x, *a)
CallRecompiled(r, x, a) ==
    CASE r.kind = "same" -> CallCompiled(r.inner, x, a)
      [] r.kind = "wrapped_func" -> WrappedOver(r.inner, x, a)
      [] r.kind = "njit" ->
           [path |-> "njit", x |-> x, a |-> a, warned |-> 0,
            out |-> IF r.inner.kind = "func" /\ Njittable(r.inner.func)
                    THEN Apply(r.inner.func, x, a) ELSE Raise]
      [] OTHER -> NoInvoked

\* compile is applied to the object the last compile returned
Recompile ==
    /\ pc = "idle"
    /\ compiled.kind # "none"
    /\ recompiled' = DecideAgain(compiled)
    /\ reinvoked' = NoInvoked
    /\ UNCHANGED <<cfgVars, callVars, compiled, compiledWhen, invoked>>

\* the object compile returned is called with (x, *a), and so is the
\* recompiled object when there is one
Invoke(x, a) ==
    /\ compiled.kind # "none"
    /\ invoked' = CallCompiled(compiled, x, a)
    /\ reinvoked' = CallRecompiled(recompiled, x, a)
    /\ UNCHANGED <<cfgVars, callVars, compiled, compiledWhen, recompiled>>

\* ---------------------------------------------------------- specifications
Next ==
    \/ ImportJax
    \/ ImportPathos
    \/ compileON
    \/ compileOFF
    \/ Dispatch
    \/ SeqEnter
    \/ SeqStep
    \/ SeqExit
    \/ JaxTier
    \/ CfCreate
    \/ PaCreate
    \/ \E i \in 1..MaxLen : TaskRun(i)
    \/ PoolBreak
    \/ CfExit
    \/ CfList
    \/ PaMap
    \/ PaClose
    \/ UnknownParallelizer
    \/ Return
    \/ Finish

\* the dispatcher and the configuration
Spec == Init /\ [][Next]_vars

NextCompile ==
    \/ ImportJax
    \/ ImportPathos
    \/ compileON
    \/ compileOFF
    \/ \E f \in Functions : Compile(f)
    \/ Recompile
    \/ \E x \in Vals, a \in ArgTuples : Invoke(x, a)

\* the compiler adapter and the configuration
CompileSpec == Init /\ [][NextCompile]_vars

\* ------------------------------------------------------------------ claims
\* the sequential evaluation of the dispatch: function(input_array[i], *args) per element
SeqOutcomes == [i \in 1..N |-> Apply(function, input_array[i], args)]
SeqSucceeds == \A i \in 1..N : ~SeqOutcomes[i].exc
SeqValues == [i \in 1..N |-> SeqOutcomes[i].val]
TimesCalled(i) == Cardinality({k \in 1..Len(calls) : calls[k] = i})

\* C1: whenever a dispatch with a worker count >= 1 and a recognized backend
\* returns, the result has the length of the input and its element i is
\* function(input_array[i], *args), whatever the order the pool ran the tasks in.
C1_ResultInInputOrder ==
    (pc = "done" /\ outcome = "returned" /\ nproc >= 1 /\ parallelizer \in Recognized) =>
        /\ Len(results) = Len(input_array)
        /\ \A i \in 1..Len(input_array) :
              Ok(results[i]) = Apply(function, input_array[i], args)

\* C1 witness: a pool dispatch returned two different values after the second
\* task ran before the first.
C1_OutOfOrderReturned ==
    /\ pc = "done" /\ outcome = "returned" /\ pool = "closed"
    /\ calls = <<2, 1>>
    /\ results[1] # results[2]

\* C2: a vectorized or pool tier that fails at runtime with worker count > 1,
\* while the sequential evaluation succeeds, ends in a returned result equal to
\* the sequential one, with one warning logged for the failed tier (besides the
\* one for a worker count above MAXTHREADS) and no exception surfaced.
C2_TierFailureFallsBack ==
    (pc = "done" /\ nproc > 1 /\ excKind \in {"trace", "pool", "function"} /\ SeqSucceeds) =>
        /\ outcome = "returned"
        /\ results = SeqValues
        /\ warnings = 1 + (IF nproc > MAXTHREADS THEN 1 ELSE 0)

\* C3: with worker count 1 no pool is created, no vmap is applied and the
\* function is applied to the elements one at a time in input order, whatever
\* the backend argument and the configuration.
C3_OneWorkerIsSequential ==
    nproc = 1 =>
        /\ pool = "none" /\ poolSize = 0 /\ futures = <<>>
        /\ ~vmapped
        /\ calls = [k \in 1..Len(calls) |-> k]
        /\ Len(calls) <= N
        /\ pc \in {"ret", "done"} /\ outcome # "raised" => Len(calls) = N

\* C3 witness: a one-worker dispatch naming the jax backend, with jax the
\* default, returned after two calls.
C3_OneWorkerJaxReturned ==
    /\ nproc = 1 /\ parallelizer = "jax" /\ DEFAULTPARALLELIZER = "jax"
    /\ outcome = "returned" /\ Len(calls) = 2

\* C4 as stated: an unrecognized backend identifier ends every dispatch, for
\* every worker count, in the fatal error naming the identifier.
C4_UnknownAlwaysFatal ==
    (pc = "done" /\ parallelizer \notin Recognized \cup {"none"}) =>
        /\ outcome = "raised" /\ excKind = "TBError" /\ errorMsg = parallelizer

\* C4 amended: an unrecognized backend identifier ends a dispatch with a worker
\* count other than 1 in the fatal error naming the identifier, with no result
\* and no call of the function; with worker count 1 the identifier is not
\* examined and the dispatch ends as the sequential loop ends.
C4_UnknownFatalUnlessOneWorker ==
    (pc = "done" /\ parallelizer \notin Recognized \cup {"none"}) =>
        IF nproc # 1
        THEN /\ outcome = "raised" /\ excKind = "TBError" /\ errorMsg = parallelizer
             /\ results = <<>> /\ calls = <<>>
        ELSE /\ excKind # "TBError" /\ errorMsg = "none"
             /\ outcome = "returned" <=> SeqSucceeds

\* C4 witness: parallel_reduce with an unknown backend and no positive worker count
\* ended in the fatal error.
C4_UnknownFatalReached ==
    /\ pc = "done" /\ op = "reduce" /\ parallelizer = "mpi4py" /\ nproc = 0
    /\ excKind = "TBError" /\ errorMsg = "mpi4py"

\* C5: no pool created by a dispatch is still open when the dispatch has
\* returned or raised.
C5_PoolReleasedAtEnd == pc = "done" => pool # "open"

\* C6: the probe records the first importable backend in the order jax,
\* pathos.pools, concurrent.futures.
C6_ProbePriority ==
    loadpc = "ready" =>
        DEFAULTPARALLELIZER = IF jaxInstalled THEN "jax"
                              ELSE IF pathosInstalled THEN "pathos.pools"
                              ELSE "concurrent.futures"

\* C7 as stated: every pool has between 1 and MAXTHREADS workers, DEFAULTTHREADS
\* lies in that range, and MAXTHREADS stays what was detected at startup.
C7_PoolSizeClamped ==
    /\ pool # "none" => poolSize \in 1..MAXTHREADS
    /\ DEFAULTTHREADS \in 1..MAXTHREADS
    /\ MAXTHREADS = cpuCount

\* C7 amended: every pool has exactly the requested nproc workers, at least 1
\* and not clamped to MAXTHREADS (a request above MAXTHREADS logs one warning);
\* DEFAULTTHREADS lies in 1..MAXTHREADS and MAXTHREADS stays what was detected
\* at startup.
C7_PoolSizeIsNproc ==
    /\ pool # "none" =>
          /\ poolSize = nproc
          /\ poolSize >= 1
          /\ warnings = IF nproc > MAXTHREADS THEN 1 ELSE 0
    /\ DEFAULTTHREADS \in 1..MAXTHREADS
    /\ MAXTHREADS = cpuCount

\* C7 witness: a pool is open with more workers than MAXTHREADS.
C7_OversizedPoolOpen == pool = "open" /\ poolSize > MAXTHREADS /\ warnings = 1

\* C8: what parallel_reduce returns is the sum of the sequence
\* parallel_function_eval returns for the same arguments, and the function was
\* applied exactly once to each input element.
C8_ReduceIsSumOnce ==
    (pc = "done" /\ op = "reduce" /\ outcome = "returned") =>
        /\ total = SumSeq(results)
        /\ total = SumSeq(SeqValues)
        /\ \A i \in 1..N : TimesCalled(i) = 1

\* C8 witness: parallel_reduce returned a nonzero sum of two elements computed by a pool.
C8_PoolReduceReturned ==
    /\ pc = "done" /\ op = "reduce" /\ outcome = "returned"
    /\ pool = "closed" /\ N = 2 /\ total > 1

\* C9: a compile call made while COMPILE is False returns func itself, neither
\* wrapped_func nor njit(func).
C9_DisabledReturnsFunc ==
    [][(~COMPILE /\ compiled' # compiled) => compiled'.kind = "func"]_vars

\* C9 witness: compile returned func itself with jax the default backend, and
\* the returned object was called.
C9_PlainFuncCalled ==
    /\ ~COMPILE /\ DEFAULTPARALLELIZER = "jax"
    /\ compiled.kind = "func" /\ invoked.path = "func"

\* C10: when the compiled invocation inside wrapped_func raises, one warning
\* is logged and the caller gets what func gives on the original arguments:
\* its value or its own exception.
C10_FallbackToOriginal ==
    (compiled.kind = "wrapped_func" /\ invoked.path # "none"
        /\ jax_func(compiled.func, invoked.x, invoked.a).exc) =>
        /\ invoked.path = "fallback"
        /\ invoked.warned = 1
        /\ invoked.out = Apply(compiled.func, invoked.x, invoked.a)

\* C10 witness: the compiled invocation failed on a list argument and the
\* fallback returned a value.
C10_FallbackReturnedValue ==
    /\ compiled.kind = "wrapped_func" /\ invoked.path = "fallback"
    /\ invoked.a # <<>> /\ ~invoked.out.exc

\* C11: every compileON step ends with COMPILE true and every compileOFF step
\* with COMPILE false, whatever COMPILE was before (so a repeated toggle, or
\* compileOFF when compilation was never enabled, changes nothing), and a step
\* that changes COMPILE changes nothing else: not DEFAULTPARALLELIZER,
\* MAXTHREADS or DEFAULTTHREADS.
C11_TogglesSetOnlyCompile ==
    [][/\ compileON => COMPILE'
       /\ compileOFF => ~COMPILE'
       /\ compileOFF /\ ~COMPILE => UNCHANGED vars
       /\ compileON /\ COMPILE => UNCHANGED vars
       /\ COMPILE' # COMPILE =>
             UNCHANGED <<DEFAULTPARALLELIZER, MAXTHREADS, DEFAULTTHREADS, jaxInstalled,
                         pathosInstalled, cpuCount, loadpc, callVars, compVars>>]_vars

\* C11 witness: compilation was enabled and disabled again after a compile
\* call that returned a compiled object.
C11_ToggledBackOff ==
    /\ ~COMPILE /\ compiled.kind \in {"wrapped_func", "njit"}

\* the first input position on which the function raises
FirstRaising == CHOOSE i \in 1..N : SeqOutcomes[i].exc /\ \A j \in 1..(i - 1) : ~SeqOutcomes[j].exc

\* C12: when the function raises on an element during a one-worker dispatch,
\* the call ends with the function's exception: no other tier runs, the
\* function is not applied to any later element, and nothing is returned
\* (parallel_reduce sums nothing).
C12_SequentialRaisePropagates ==
    (pc = "done" /\ nproc = 1 /\ ~SeqSucceeds) =>
        /\ outcome = "raised" /\ excKind = "function"
        /\ calls = [k \in 1..FirstRaising |-> k]
        /\ Len(results) = FirstRaising - 1
        /\ pool = "none" /\ ~vmapped /\ futures = <<>>
        /\ total = 0

\* C12 witness: parallel_reduce with one worker raised on the first of two elements.
C12_RaisedOnFirstOfTwo ==
    /\ pc = "done" /\ nproc = 1 /\ op = "reduce" /\ N = 2
    /\ excKind = "function" /\ calls = <<1>>

\* C13: a dispatch whose nproc is no integer, whose input is not array-like or
\* whose backend identifier is no string ends at once with checkType's
\* exception: the function is applied to no element, no pool is created, no
\* vmap is applied, and no argument is stored or converted.
C13_BadTypeRejectedFirst ==
    badArg # "none" =>
        /\ pc = "done" /\ outcome = "raised" /\ excKind = "checkType"
        /\ calls = <<>> /\ results = <<>>
        /\ pool = "none" /\ futures = <<>> /\ ~vmapped
        /\ function = "none" /\ input_array = <<>> /\ args = <<>>
        /\ nproc = 0 /\ parallelizer = "none"
        /\ warnings = 0 /\ total = 0

\* C13 witness: parallel_reduce was called with a backend identifier that is no string.
C13_NonStringBackendRejected ==
    /\ badArg = "parallelizer" /\ op = "reduce" /\ excKind = "checkType"

\* C14: every step of a dispatch (entering, each tier's steps, returning,
\* raising) leaves COMPILE, DEFAULTPARALLELIZER, MAXTHREADS and DEFAULTTHREADS
\* as they were.
C14_DispatchLeavesConfig ==
    [][callVars' # callVars =>
          UNCHANGED <<COMPILE, DEFAULTPARALLELIZER, MAXTHREADS, DEFAULTTHREADS>>]_vars

\* C14 witness: with compilation enabled, a dispatch on an unknown backend
\* ended in the fatal error.
C14_RaisedWithCompileOn ==
    /\ COMPILE /\ pc = "done" /\ excKind = "TBError"

\* the conversion of one argument that backend p calls for
ConvertFor(p, x) ==
    IF p = "jax" /\ x.ty \in {"ndarray", "list", "tuple"} THEN [ty |-> "jax", v |-> x.v] ELSE x

\* C15: a dispatch that leaves nproc or parallelizer out runs with the current
\* DEFAULTTHREADS or DEFAULTPARALLELIZER, and the argument conversion of the
\* vmap branch is the one of the backend the call resolved, the same backend
\* that chose the branch.
C15_OneBackendPerCall ==
    /\ "nproc" \in omitted => nproc = DEFAULTTHREADS
    /\ "parallelizer" \in omitted => parallelizer = DEFAULTPARALLELIZER
    /\ vmapped =>
          handle_jax_args(args) = [i \in 1..Len(args) |-> ConvertFor(parallelizer, args[i])]

\* C16: when compile is applied to the object compile(f) returned, in the same
\* configuration, it returns an object (it does not raise), and that object
\* gives on every argument the result the first object gives, the arguments
\* on which the compiled path fails included.
C16_CompileIdempotent ==
    (recompiled.kind # "none" /\ recompiled.flag = compiledWhen) =>
        /\ recompiled.kind # "TypeError"
        /\ reinvoked.path # "none" => reinvoked.out = invoked.out

\* the return statement of compile that a value of COMPILE leads to
Decision(flag) ==
    IF flag /\ DEFAULTPARALLELIZER = "jax" THEN "wrapped_func"
    ELSE IF flag THEN "njit" ELSE "func"

\* the call paths of each kind of object
PathsOf(k) ==
    CASE k = "wrapped_func" -> {"jax", "fallback"}
      [] k = "njit" -> {"njit"}
      [] k = "func" -> {"func"}
      [] OTHER -> {}

\* C17: with COMPILE set and a default backend other than jax, compile
\* returns the jitted function: its call converts no argument, warns of
\* nothing and falls back to nothing, so its failure is the caller's
\* outcome; the fallback wrapper is returned only when the default backend is jax.
C17_GenericPathNoFallback ==
    /\ (compiled.kind # "none" /\ compiledWhen /\ DEFAULTPARALLELIZER # "jax") =>
            compiled.kind = "njit"
    /\ compiled.kind = "wrapped_func" => (compiledWhen /\ DEFAULTPARALLELIZER = "jax")
    /\ (compiled.kind = "njit" /\ invoked.path # "none") =>
            /\ invoked.path = "njit"
            /\ invoked.warned = 0
            /\ invoked.out = IF Njittable(compiled.func)
                             THEN Apply(compiled.func, invoked.x, invoked.a)
                             ELSE Raise

\* C17 witness: the jitted function failed on arguments the plain function
\* accepts, and the call raised.
C17_JitFailurePropagated ==
    /\ compiled.kind = "njit" /\ invoked.path = "njit" /\ invoked.out.exc
    /\ ~Apply(compiled.func, invoked.x, invoked.a).exc

\* C18: the object compile returned is the one the value of COMPILE at that
\* call leads to, and every later call of it takes that object's path,
\* whatever COMPILE has become since.
C18_DecisionFixedAtCompile ==
    compiled.kind # "none" =>
        /\ compiled.kind = Decision(compiledWhen)
        /\ compiled.kind = "func" <=> ~compiledWhen
        /\ invoked.path # "none" => invoked.path \in PathsOf(Decision(compiledWhen))

\* C18 witness: a function compiled with COMPILE set was called on the
\* compiled path after compileOFF.
C18_CompiledPathAfterOff ==
    /\ compiledWhen /\ ~COMPILE /\ invoked.path = "jax"

\* C19: no element is ever passed to the function twice, and when a dispatch
\* on a pool returns to its caller every task has completed, the result
\* holds one value per input element, the function has been applied exactly
\* once to each element, and the pool is closed: nothing is left to compute.
C19_ReturnedPoolCallComplete ==
    /\ \A i \in 1..N : TimesCalled(i) <= 1
    /\ (pc = "done" /\ outcome = "returned" /\ pool # "none") =>
            /\ nproc > 1
            /\ \A i \in 1..N : futures[i].st = "done"
            /\ Len(results) = N
            /\ \A i \in 1..N : TimesCalled(i) = 1
            /\ pool = "closed"

\* C19 witness: parallel_function_eval returned from a pool of more than one
\* worker with two elements evaluated.
C19_PoolEvalReturnedTwo ==
    /\ pc = "done" /\ outcome = "returned" /\ op = "eval"
    /\ pool = "closed" /\ nproc > 1 /\ N = 2 /\ Len(calls) = 2
====
